---- MODULE Spec2Model ----
(***************************************************************************)
(* Model of monasca_agent/collector/jmxfetch.py: the JMXFetch supervisor.  *)
(*                                                                         *)
(* The supervisor scans a conf.d directory for JMX checks, validates them, *)
(* and manages one external jmxfetch process through a pid file and two    *)
(* status files.  YAML values are modelled as tagged records [t, v] so     *)
(* that the isinstance / None / truthiness tests of the code keep their    *)
(* meaning.                                                                *)
(***************************************************************************)
EXTENDS Integers, Sequences, FiniteSets, TLC

(***************************************************************************)
(* Bounds of the model.                                                    *)
(***************************************************************************)
\* Size of the OS process-identifier space.
MaxPid == 2

Pids == 1..MaxPid

(***************************************************************************)
(* Python / YAML values.                                                   *)
(***************************************************************************)
VNone == [t |-> "none", v |-> <<>>]
VBool(b) == [t |-> "bool", v |-> b]
VInt(n) == [t |-> "int", v |-> n]
VStr(s) == [t |-> "str", v |-> s]
VList(s) == [t |-> "list", v |-> s]
VDict(f) == [t |-> "dict", v |-> f]
\* What yaml.safe_load raises on: a file that is not YAML.
Unparsable == [t |-> "unparsable", v |-> <<>>]

\* x is None
IsNone(x) == x.t = "none"
\* isinstance(x, dict); only a dict has the .get the code calls
IsDict(x) == x.t = "dict"
\* isinstance(x, list)
IsList(x) == x.t = "list"
\* isinstance(x, int): bool is a subclass of int in Python
IsInt(x) == x.t \in {"int", "bool"}
\* bool(x), the test of `if x:` and of `x or y`
Truthy(x) ==
    CASE x.t = "none" -> FALSE
      [] x.t = "bool" -> x.v
      [] x.t = "int" -> x.v # 0
      [] x.t = "str" -> x.v # ""
      [] x.t = "list" -> Len(x.v) > 0
      [] x.t = "dict" -> DOMAIN x.v # {}
      [] OTHER -> FALSE
\* d.get(k, dflt) for a dict d
Get(d, k, dflt) == IF k \in DOMAIN d.v THEN d.v[k] ELSE dflt

(***************************************************************************)
(* Program constants.                                                      *)
(***************************************************************************)
JMX_CHECKS == {"activemq", "activemq_58", "cassandra", "jmx", "solr", "tomcat"}
JMX_COLLECT_COMMAND == "collect"
JMX_LIST_COMMANDS ==
    {"list_everything", "list_collected_attributes", "list_matching_attributes",
     "list_not_matching_attributes", "list_limited_attributes", JMX_COLLECT_COMMAND}

(***************************************************************************)
(* is_jmx_check: classification and validation of one parsed document.     *)
(* The result is a record: kind "ok" is a normal return of                 *)
(* (is_jmx, java_bin_path, java_options); kind "invalid" is a raised       *)
(* InvalidJMXConfiguration with its reason; kind "error" is any other      *)
(* exception (AttributeError of a .get on a value that is no dict,         *)
(* TypeError of iterating a value that is no sequence).                    *)
(***************************************************************************)
Returned(is_jmx, jbp, jo) ==
    [kind |-> "ok", is_jmx |-> is_jmx, java_bin_path |-> jbp, java_options |-> jo,
     reason |-> ""]
InvalidJMXConfiguration(reason) ==
    [kind |-> "invalid", is_jmx |-> FALSE, java_bin_path |-> VNone,
     java_options |-> VNone, reason |-> reason]
OtherException ==
    [kind |-> "error", is_jmx |-> FALSE, java_bin_path |-> VNone,
     java_options |-> VNone, reason |-> "exception"]

\* The loop `for config in conf` (lines 194-203), from element i on:
\* "ok", or the first exception it raises.
RECURSIVE CheckConf(_, _)
CheckConf(conf, i) ==
    IF i > Len(conf) THEN "ok"
    ELSE LET config == conf[i] IN
         IF ~IsDict(config) THEN "error"
         ELSE LET include == Get(config, "include", VNone) IN
              IF IsNone(include) THEN "no include"
              ELSE IF ~IsDict(include) THEN "include not a dict"
              ELSE CheckConf(conf, i + 1)

\* An instance loop that takes a missing conf for an invalid one.
CheckInstance_conf_required(inst, init_config) ==
    IF ~IsDict(inst) THEN "instance not a dict"
    ELSE IF ~IsDict(init_config) THEN "error"
    ELSE LET host == Get(inst, "host", VNone)
             port == Get(inst, "port", VNone)
             conf == Get(inst, "conf", Get(init_config, "conf", VNone))
         IN  IF IsNone(host) THEN "no host"
             ELSE IF IsNone(port) \/ ~IsInt(port) THEN "no numeric port"
             ELSE IF IsNone(conf) \/ ~IsList(conf) \/ Len(conf.v) = 0
             THEN "conf not a list"
             ELSE CheckConf(conf.v, 1)

\* The body of the loop `for inst in instances` (lines 174-203) for one instance.
CheckInstance(inst, init_config) ==
    IF ~IsDict(inst) THEN "instance not a dict"
    ELSE IF ~IsDict(init_config) THEN "error"
    ELSE LET host == Get(inst, "host", VNone)
             port == Get(inst, "port", VNone)
             conf == Get(inst, "conf", Get(init_config, "conf", VNone))
         IN  IF IsNone(host) THEN "no host"
             ELSE IF IsNone(port) \/ ~IsInt(port) THEN "no numeric port"
             ELSE IF IsNone(conf) THEN "ok"
             ELSE IF ~IsList(conf) \/ Len(conf.v) = 0 THEN "conf not a list"
             ELSE CheckConf(conf.v, 1)

\* The loop `for inst in instances` (line 173), from instance i on.
RECURSIVE CheckInstances(_, _, _)
CheckInstances(instances, i, init_config) ==
    IF i > Len(instances) THEN "ok"
    ELSE LET r == CheckInstance(instances[i], init_config) IN
         IF r # "ok" THEN r ELSE CheckInstances(instances, i + 1, init_config)

\* The loops of lines 212-214 and 220-222: every instance with a truthy value
\* under `key` assigns it, with no break, from instance i on; acc is the
\* value assigned so far.
RECURSIVE ScanInstances(_, _, _, _)
ScanInstances(instances, key, i, acc) ==
    IF i > Len(instances) THEN acc
    ELSE LET instance == instances[i]
             val == Get(instance, key, VNone)
         IN  ScanInstances(instances, key, i + 1,
                           IF Truthy(instance) /\ Truthy(val) THEN val ELSE acc)

\* Lines 205-222 for one of java_bin_path / java_options.
ResolveJava(init_config, instances, key) ==
    IF Truthy(init_config) /\ Truthy(Get(init_config, key, VNone))
    THEN Get(init_config, key, VNone)
    ELSE ScanInstances(instances, key, 1, VNone)

\* An eligibility decision that lets a known name or the is_jmx flag pass
\* whatever the allow-list.
Eligibility_known_first(init_config, check_name, checks_list) ==
    IF ~IsDict(init_config) THEN "error"
    ELSE IF Truthy(Get(init_config, "is_jmx", VNone)) \/ check_name \in JMX_CHECKS
    THEN "yes"
    ELSE IF \E i \in 1..Len(checks_list) : checks_list[i] = check_name
    THEN "yes" ELSE "no"

\* Lines 160-165: the eligibility decision; "error" when init_config.get
\* is called on a value that is no dict.
Eligibility(init_config, check_name, checks_list) ==
    IF Len(checks_list) > 0
    THEN (IF \E i \in 1..Len(checks_list) : checks_list[i] = check_name
          THEN "yes" ELSE "no")
    ELSE IF ~IsDict(init_config) THEN "error"
    ELSE IF Truthy(Get(init_config, "is_jmx", VNone)) \/ check_name \in JMX_CHECKS
    THEN "yes" ELSE "no"

is_jmx_check(check_config, check_name, checks_list) ==
    IF ~IsDict(check_config) THEN OtherException
    ELSE
    LET ic0 == Get(check_config, "init_config", VDict(<<>>))
        init_config == IF IsNone(ic0) THEN VDict(<<>>) ELSE ic0
        elig == Eligibility(init_config, check_name, checks_list)
    IN  IF elig = "error" THEN OtherException
        ELSE IF elig = "no" THEN Returned(FALSE, VNone, VNone)
        ELSE
        LET instances == Get(check_config, "instances", VList(<<>>)) IN
        IF ~IsList(instances) \/ Len(instances.v) = 0
        THEN InvalidJMXConfiguration("no instances")
        ELSE
        LET r == CheckInstances(instances.v, 1, init_config) IN
        IF r = "error" THEN OtherException
        ELSE IF r # "ok" THEN InvalidJMXConfiguration(r)
        ELSE Returned(TRUE,
                      ResolveJava(init_config, instances.v, "java_bin_path"),
                      ResolveJava(init_config, instances.v, "java_options"))

(***************************************************************************)
(* should_run: the scan of the conf.d directory.                           *)
(* A directory is the sequence of its files in glob order.  A file is      *)
(* [filename, exists, doc]: filename is the sequence of the dot-separated  *)
(* parts of its name, exists is os.path.exists (false for a dangling       *)
(* link), doc is what yaml.safe_load returns, or Unparsable.               *)
(***************************************************************************)
File(filename, doc) == [filename |-> filename, exists |-> TRUE, doc |-> doc]

\* glob.glob(os.path.join(confd_path, '*.yaml'))
IsYaml(f) == Len(f.filename) >= 2 /\ f.filename[Len(f.filename)] = "yaml"

\* filename.split('.')[0]
CheckName(filename) == filename[1]

ScanState(jmx_checks, invalid_checks, jbp, jo, raised) ==
    [jmx_checks |-> jmx_checks, invalid_checks |-> invalid_checks,
     java_bin_path |-> jbp, java_options |-> jo, raised |-> raised]

\* One iteration of the loop of lines 121-147 on file f, from the state acc.
ScanFile(acc, f, checks_list) ==
    IF acc.raised \/ ~IsYaml(f) \/ ~f.exists THEN acc
    ELSE IF f.doc = Unparsable \/ IsNone(f.doc) THEN acc
    ELSE LET check_name == CheckName(f.filename)
             r == is_jmx_check(f.doc, check_name, checks_list)
         IN  CASE r.kind = "error" -> [acc EXCEPT !.raised = TRUE]
               [] r.kind = "invalid" ->
                    [acc EXCEPT !.invalid_checks = (check_name :> r.reason) @@ @]
               [] r.kind = "ok" /\ ~r.is_jmx -> acc
               [] OTHER ->
                    ScanState(Append(acc.jmx_checks, f.filename),
                              acc.invalid_checks,
                              IF IsNone(acc.java_bin_path) /\ ~IsNone(r.java_bin_path)
                              THEN r.java_bin_path ELSE acc.java_bin_path,
                              IF IsNone(acc.java_options) /\ ~IsNone(r.java_options)
                              THEN r.java_options ELSE acc.java_options,
                              FALSE)

RECURSIVE ScanFrom(_, _, _, _)
ScanFrom(confd, i, checks_list, acc) ==
    IF i > Len(confd) THEN acc
    ELSE ScanFrom(confd, i + 1, checks_list, ScanFile(acc, confd[i], checks_list))

\* should_run(confd_path, checks_list): raised is TRUE when an exception
\* other than InvalidJMXConfiguration left the scan.
should_run(confd, checks_list) ==
    ScanFrom(confd, 1, checks_list, ScanState(<<>>, <<>>, VNone, VNone, FALSE))

(***************************************************************************)
(* State.                                                                  *)
(***************************************************************************)
VARIABLES
    pid_file,     \* the jmxfetch pid file: [exists, content], content <<>> or <<pid>>
    procs,        \* the OS process table: pid -> "free" | "jmx" | "term" | "foreign"
    py_status,    \* jmx_status_python.yaml: <<>> when absent, else <<invalid_checks>>
    jmx_status,   \* jmx_status.yaml, written by the jmxfetch process: present or not
    platform,     \* monasca_agent.common.util.get_os()
    last          \* observation of the last call: what it did and what it returned

vars == <<pid_file, procs, py_status, jmx_status, platform, last>>

\* The part of the state the supervisor's methods read and write, with the
\* ordered log of the system calls the current call has made.
World ==
    [pid_file |-> pid_file, procs |-> procs, py_status |-> py_status,
     jmx_status |-> jmx_status, platform |-> platform, events |-> <<>>]

Event(e, pid, ok) == [e |-> e, pid |-> pid, ok |-> ok]
Log(w, ev) == [w EXCEPT !.events = Append(@, ev)]

AbsentFile == [exists |-> FALSE, content |-> <<>>]
TruncatedFile == [exists |-> TRUE, content |-> <<>>]
PidFileOf(pid) == [exists |-> TRUE, content |-> <<pid>>]

\* The collectors the supervisor spawned that are still there: running
\* ("jmx"), or sent SIGTERM and not yet gone ("term").  "foreign" is a
\* process of another user.
Collectors(pr) == {p \in Pids : pr[p] \in {"jmx", "term"}}

(***************************************************************************)
(* monasca_agent.common.util.PidFile                                       *)
(***************************************************************************)
\* PidFile.get_pid(): <<pid>>, or <<>> (None) when the file is absent or
\* does not hold an integer.
get_pid(w) == IF w.pid_file.exists THEN w.pid_file.content ELSE <<>>

\* PidFile.clean(): remove the pid file.
clean(w) == [w EXCEPT !.pid_file = AbsentFile]

(***************************************************************************)
(* The operating system.                                                   *)
(***************************************************************************)
\* The errno os.kill(pid, sig) raises, or "ok": ESRCH ("Errno 3") when no
\* such process exists, EPERM when it is another user's.
os_kill_errno(w, pid) ==
    CASE w.procs[pid] = "free" -> "ESRCH"
      [] w.procs[pid] = "foreign" -> "EPERM"
      [] OTHER -> "ok"

\* os.kill(pid, sig): signal 0 only probes; SIGTERM, when it is delivered,
\* asks the process to end: it is still there until it exits.
os_kill(w, pid, sig) ==
    [errno |-> os_kill_errno(w, pid),
     w |-> IF sig = "SIGTERM" /\ os_kill_errno(w, pid) = "ok"
           THEN [w EXCEPT !.procs[pid] = "term"] ELSE w]

\* kernel32.OpenProcess(SYNCHRONIZE, 0, pid): a handle, or 0.
OpenProcess(w, pid) == IF os_kill_errno(w, pid) = "ok" THEN pid ELSE 0

(***************************************************************************)
(* JMXFetch.is_running: the world it leaves and the boolean it returns.    *)
(***************************************************************************)
Result(w, ret) == [w |-> w, ret |-> ret]

\* A probe that signals for real: os.kill(pid, signal.SIGTERM) for os.kill(pid, 0).
is_running_sigterm(w) ==
    LET pid == get_pid(w) IN
    IF pid = <<>> THEN Result(w, FALSE)
    ELSE LET k == os_kill(w, pid[1], "SIGTERM") IN Result(k.w, k.errno = "ok")

\* A probe that takes only "Errno 3" for a dead process.
is_running_errno3(w) ==
    LET pid == get_pid(w) IN
    IF pid = <<>> THEN Result(w, FALSE)
    ELSE LET k == os_kill(w, pid[1], "0") IN Result(k.w, k.errno # "ESRCH")

is_running(w) ==
    LET pid == get_pid(w) IN
    IF pid = <<>> THEN Result(w, FALSE)
    ELSE IF w.platform # "windows"
    THEN LET k == os_kill(w, pid[1], "0") IN Result(k.w, k.errno = "ok")
    ELSE Result(w, OpenProcess(w, pid[1]) # 0)

(***************************************************************************)
(* JMXFetch.write_status_file                                              *)
(***************************************************************************)
\* fault: the open of the status file raises.  The timestamp of the record
\* is left out: nothing reads it.
write_status_file(w, invalid_checks, fault) ==
    IF fault
    THEN Log(w, Event("write_status", 0, FALSE))
    ELSE Log([w EXCEPT !.py_status = <<invalid_checks>>],
             Event("write_status", 0, TRUE))

(***************************************************************************)
(* JMXFetch.stop                                                           *)
(***************************************************************************)
\* Lines 281-284: os.remove of jmx_status_python.yaml, its failure swallowed.
remove_py_status(w) ==
    Log([w EXCEPT !.py_status = <<>>], Event("remove_py_status", 0, TRUE))

\* A stop that forgets the pid file without signalling the process.
stop_no_kill(w) ==
    LET pid == get_pid(w) IN
    IF pid = <<>> THEN w
    ELSE remove_py_status(Log(clean(w), Event("clean", pid[1], TRUE)))

\* A stop that removes the status file before it looks for the pid.
stop_always_remove(w) ==
    LET pid == get_pid(w) IN
    IF pid = <<>> THEN remove_py_status(w)
    ELSE LET k == os_kill(w, pid[1], "SIGTERM") IN
         IF k.errno # "ok"
         THEN Log(w, Event("SIGTERM", pid[1], FALSE))
         ELSE remove_py_status(
                  Log(clean(Log(k.w, Event("SIGTERM", pid[1], TRUE))),
                      Event("clean", pid[1], TRUE)))

stop(w) ==
    LET pid == get_pid(w) IN
    IF pid = <<>> THEN w
    ELSE LET k == os_kill(w, pid[1], "SIGTERM") IN
         IF k.errno # "ok"
         THEN Log(w, Event("SIGTERM", pid[1], FALSE))
         ELSE remove_py_status(
                  Log(clean(Log(k.w, Event("SIGTERM", pid[1], TRUE))),
                      Event("clean", pid[1], TRUE)))

(***************************************************************************)
(* JMXFetch.start                                                          *)
(* env is what the operating system answers: spawn is "ok", "OSError" or   *)
(* "Exception"; pid is the identifier a successful Popen gives the child;  *)
(* pid_write is "ok", "open_fails" or "write_fails" for the pid file.      *)
(***************************************************************************)
\* Lines 358-365.
write_pid(w, jmx_connector_pid, pid_write) ==
    CASE pid_write = "ok" ->
           Log([w EXCEPT !.pid_file = PidFileOf(jmx_connector_pid)],
               Event("write_pid", jmx_connector_pid, TRUE))
      [] pid_write = "write_fails" ->
           Log([w EXCEPT !.pid_file = TruncatedFile],
               Event("write_pid", jmx_connector_pid, FALSE))
      [] OTHER -> Log(w, Event("write_pid", jmx_connector_pid, FALSE))

\* A start that cleans the pid file up when the spawn fails.
start_clean_on_failure(w, reporter, env) ==
    LET reporter2 == IF IsNone(reporter) THEN VStr("statsd:8125") ELSE reporter IN
    IF env.spawn # "ok"
    THEN Log(clean(w), Event("spawn", 0, FALSE))
    ELSE IF reporter2 # VStr("console")
    THEN write_pid(Log([w EXCEPT !.procs[env.pid] = "jmx"], Event("spawn", env.pid, TRUE)),
                   env.pid, env.pid_write)
    ELSE Log(w, Event("call", 0, TRUE))

start(w, reporter, env) ==
    LET reporter2 == IF IsNone(reporter) THEN VStr("statsd:8125") ELSE reporter IN
    IF env.spawn # "ok"
    THEN Log(w, Event("spawn", 0, FALSE))
    ELSE IF reporter2 # VStr("console")
    THEN write_pid(Log([w EXCEPT !.procs[env.pid] = "jmx"], Event("spawn", env.pid, TRUE)),
                   env.pid, env.pid_write)
    ELSE Log(w, Event("call", 0, TRUE))

(***************************************************************************)
(* JMXFetch.init                                                           *)
(***************************************************************************)
InitResult(w, ret, scan, command) ==
    [w |-> w, ret |-> ret, scan |-> scan, command |-> command]

\* An init that starts without stopping the collector that runs.
init_no_restart(w, scan, command, reporter, env) ==
    LET command2 == IF Truthy(command) THEN command ELSE VStr(JMX_COLLECT_COMMAND)
    IN  IF scan.raised THEN InitResult(w, "None", scan, command2)
        ELSE
        LET w1 == IF DOMAIN scan.invalid_checks # {}
                  THEN write_status_file(w, scan.invalid_checks, env.status_fault)
                  ELSE w
        IN  IF Len(scan.jmx_checks) > 0
            THEN InitResult(start(w1, reporter, env), "True", scan, command2)
            ELSE InitResult(w1, "None", scan, command2)

\* An init that starts whatever the scan found.
init_start_always(w, scan, command, reporter, env) ==
    LET command2 == IF Truthy(command) THEN command ELSE VStr(JMX_COLLECT_COMMAND)
    IN  IF scan.raised THEN InitResult(w, "None", scan, command2)
        ELSE
        LET w1 == IF DOMAIN scan.invalid_checks # {}
                  THEN write_status_file(w, scan.invalid_checks, env.status_fault)
                  ELSE w
            r == is_running(w1)
            w2 == IF r.ret /\ command2 = VStr(JMX_COLLECT_COMMAND)
                  THEN stop(r.w) ELSE r.w
        IN  InitResult(start(w2, reporter, env), "True", scan, command2)

\* An init that restarts the running collector for every command.
init_restart_any(w, scan, command, reporter, env) ==
    LET command2 == IF Truthy(command) THEN command ELSE VStr(JMX_COLLECT_COMMAND)
    IN  IF scan.raised THEN InitResult(w, "None", scan, command2)
        ELSE
        LET w1 == IF DOMAIN scan.invalid_checks # {}
                  THEN write_status_file(w, scan.invalid_checks, env.status_fault)
                  ELSE w
        IN  IF Len(scan.jmx_checks) > 0
            THEN LET r == is_running(w1)
                     w2 == IF r.ret THEN stop(r.w) ELSE r.w
                 IN  InitResult(start(w2, reporter, env), "True", scan, command2)
            ELSE InitResult(w1, "None", scan, command2)

\* scan is what should_run(confd_path, checks_list) gave at lines 63-64; an
\* exception that left the scan is caught at line 80, and init returns None.
init(w, scan, command, reporter, env) ==
    LET command2 == IF Truthy(command) THEN command ELSE VStr(JMX_COLLECT_COMMAND)
    IN  IF scan.raised THEN InitResult(w, "None", scan, command2)
        ELSE
        LET w1 == IF DOMAIN scan.invalid_checks # {}
                  THEN write_status_file(w, scan.invalid_checks, env.status_fault)
                  ELSE w
        IN  IF Len(scan.jmx_checks) > 0
            THEN LET r == is_running(w1)
                     w2 == IF r.ret /\ command2 = VStr(JMX_COLLECT_COMMAND)
                           THEN stop(r.w) ELSE r.w
                 IN  InitResult(start(w2, reporter, env), "True", scan, command2)
            ELSE InitResult(w1, "None", scan, command2)

(***************************************************************************)
(* Inputs of the calls.                                                    *)
(***************************************************************************)
Instance(host, port) == VDict([host |-> host, port |-> port])

\* cassandra.yaml: one instance with host and integer port, no conf.
CassandraDoc == VDict([instances |-> VList(<<Instance(VStr("localhost"), VInt(7199))>>)])
\* An is_jmx document with an empty instance list.
NoInstancesDoc ==
    VDict([init_config |-> VDict([is_jmx |-> VBool(TRUE)]), instances |-> VList(<<>>)])
\* A document whose port is a numeric string.
StringPortDoc == VDict([instances |-> VList(<<Instance(VStr("localhost"), VStr("7199"))>>)])
\* A document whose conf holds an element that is no mapping.
ScalarConfDoc ==
    VDict([instances |->
             VList(<<VDict([host |-> VStr("localhost"), port |-> VInt(7199),
                            conf |-> VList(<<VStr("include")>>)])>>)])

\* The conf.d directories the calls are made on, each with an allow-list
\* (<<>> is no allow-list).
ScanInputs ==
    { [confd |-> <<File(<<"cassandra", "yaml">>, CassandraDoc)>>, checks_list |-> <<>>],
      [confd |-> <<File(<<"bad", "yaml">>, NoInstancesDoc)>>, checks_list |-> <<>>],
      [confd |-> <<File(<<"cassandra", "yaml">>, CassandraDoc),
                   File(<<"tomcat", "yaml">>, StringPortDoc)>>, checks_list |-> <<>>],
      [confd |-> <<File(<<"cassandra", "yaml">>, CassandraDoc),
                   File(<<"tomcat", "yaml">>, StringPortDoc)>>,
       checks_list |-> <<"tomcat">>],
      [confd |-> <<File(<<"nginx", "yaml">>, CassandraDoc),
                   File(<<"broken", "yaml">>, Unparsable),
                   File(<<"empty", "yaml">>, VNone),
                   File(<<"notes", "txt">>, CassandraDoc)>>, checks_list |-> <<>>],
      [confd |-> <<File(<<"cassandra", "yaml">>, CassandraDoc),
                   File(<<"jmx", "yaml">>, ScalarConfDoc)>>, checks_list |-> <<>>] }

\* command: None (the collect command by default) or a listing command.
Commands == {VNone, VStr("list_everything")}
\* reporter: None (statsd) or the console.
Reporters == {VNone, VStr("console")}

Env(spawn, pid, pid_write, status_fault) ==
    [spawn |-> spawn, pid |-> pid, pid_write |-> pid_write, status_fault |-> status_fault]

\* What the operating system can answer to a start(): a failed spawn, or a
\* child with any identifier that is free, and then any outcome of the write
\* of the pid file.
PidWrites == {"ok", "open_fails", "write_fails"}
SpawnEnvs(pr) ==
    {Env(s, 0, "ok", FALSE) : s \in {"OSError", "Exception"}}
    \cup {Env("ok", p, pw, FALSE) : p \in {q \in Pids : pr[q] = "free"}, pw \in PidWrites}

\* What it can answer to an init() on the scan result sc: the status file
\* is written only when a check is invalid, the spawn is reached only when
\* a check is eligible.
InitEnvs(pr, sc) ==
    LET spawns == IF ~sc.raised /\ Len(sc.jmx_checks) > 0
                  THEN SpawnEnvs(pr) ELSE {Env("none", 0, "ok", FALSE)}
        faults == IF ~sc.raised /\ DOMAIN sc.invalid_checks # {}
                  THEN BOOLEAN ELSE {FALSE}
    IN  {[e EXCEPT !.status_fault = f] : e \in spawns, f \in faults}

(***************************************************************************)
(* The observation of a call: which method, what it returned, the system   *)
(* calls it made in order, and for init() what it was asked and what the   *)
(* scan found.                                                             *)
(***************************************************************************)
Obs(op, ret, events, command, scan) ==
    [op |-> op, ret |-> ret, events |-> events, command |-> command,
     jmx_checks |-> scan.jmx_checks, invalid_checks |-> scan.invalid_checks,
     raised |-> scan.raised]

NoScan == ScanState(<<>>, <<>>, VNone, VNone, FALSE)

Apply(w) ==
    /\ pid_file' = w.pid_file
    /\ procs' = w.procs
    /\ py_status' = w.py_status
    /\ jmx_status' = w.jmx_status
    /\ platform' = w.platform

(***************************************************************************)
(* Initial state: no pid file, no status file, no collector.               *)
(***************************************************************************)
Init ==
    /\ pid_file = AbsentFile
    /\ procs = [p \in Pids |-> "free"]
    /\ py_status = <<>>
    /\ jmx_status = FALSE
    /\ platform \in {"posix", "windows"}
    /\ last = Obs("none", "None", <<>>, VNone, NoScan)

(***************************************************************************)
(* The calls.                                                              *)
(***************************************************************************)
\* init() called with a command of `commands`, the write of the pid file
\* answering one of `pid_writes`.
InitCallWith(commands, pid_writes) ==
    \E in \in ScanInputs :
      \E scan \in {should_run(in.confd, in.checks_list)} :
        \E command \in commands, reporter \in Reporters,
           env \in {e \in InitEnvs(procs, scan) : e.pid_write \in pid_writes} :
          \E r \in {init(World, scan, command, reporter, env)} :
            /\ Apply(r.w)
            /\ last' = Obs("init", r.ret, r.w.events, r.command, r.scan)

InitCall == InitCallWith(Commands, PidWrites)

\* init() for the collect command, the pid file writable.
CollectInitCall == InitCallWith({VNone, VStr(JMX_COLLECT_COMMAND)}, {"ok"})

StartCall ==
    \E reporter \in Reporters, env \in SpawnEnvs(procs) :
      \E w \in {start(World, reporter, env)} :
        /\ Apply(w)
        /\ last' = Obs("start", "None", w.events, VNone, NoScan)

StopCall ==
    \E w \in {stop(World)} :
      /\ Apply(w)
      /\ last' = Obs("stop", "None", w.events, VNone, NoScan)

IsRunningCall ==
    \E r \in {is_running(World)} :
      /\ Apply(r.w)
      /\ last' = Obs("is_running", IF r.ret THEN "True" ELSE "False",
                     r.w.events, VNone, NoScan)

(***************************************************************************)
(* The environment: processes come and go between the calls.               *)
(***************************************************************************)
EnvObs == Obs("env", "None", <<>>, VNone, NoScan)

\* A collector exits: by itself, or after the SIGTERM it was sent.
CollectorExits ==
    \E p \in Collectors(procs) :
        /\ procs' = [procs EXCEPT ![p] = "free"]
        /\ UNCHANGED <<pid_file, py_status, jmx_status, platform>>
        /\ last' = EnvObs

\* A running collector writes its own status file.
CollectorWritesStatus ==
    /\ Collectors(procs) # {}
    /\ jmx_status' = TRUE
    /\ UNCHANGED <<pid_file, procs, py_status, platform>>
    /\ last' = EnvObs

\* Another user's process takes a free identifier, or gives it back.
ForeignProcess ==
    \E p \in Pids :
        /\ procs[p] \in {"free", "foreign"}
        /\ procs' = [procs EXCEPT ![p] = IF procs[p] = "free" THEN "foreign" ELSE "free"]
        /\ UNCHANGED <<pid_file, py_status, jmx_status, platform>>
        /\ last' = EnvObs

Next ==
    \/ InitCall
    \/ StartCall
    \/ StopCall
    \/ IsRunningCall
    \/ CollectorExits
    \/ CollectorWritesStatus
    \/ ForeignProcess

Spec == Init /\ [][Next]_vars

\* Serialized init() calls for the collect command with a writable pid
\* file, stop() and is_running(); no direct start().
NextCollect ==
    \/ CollectInitCall
    \/ StopCall
    \/ IsRunningCall
    \/ CollectorExits
    \/ CollectorWritesStatus
    \/ ForeignProcess

SpecCollect == Init /\ [][NextCollect]_vars

(***************************************************************************)
(* Properties.                                                             *)
(***************************************************************************)
HasEvent(evs, e, ok) == \E i \in DOMAIN evs : evs[i].e = e /\ evs[i].ok = ok
\* start() was entered and its spawn raised.
SpawnFailed(evs) == HasEvent(evs, "spawn", FALSE)
\* start() spawned the detached process.
SpawnedDetached(evs) == HasEvent(evs, "spawn", TRUE)
\* stop() sent the signal and went on to clean up.
Stopped(evs) == HasEvent(evs, "SIGTERM", TRUE)
\* The supervisor state: Running when the marker names a live process.
Running == is_running(World).ret
\* The check names the python-side status record holds.
RecordedInvalid == IF py_status = <<>> THEN {} ELSE DOMAIN py_status[1]
Unsignalled(pr) == {p \in Pids : pr[p] = "jmx"}

\* C1: an init() for the collect command that finds an eligible check while
\* the state is Running sends SIGTERM to the recorded identifier before it
\* spawns, and when the detached spawn succeeds the identifier the marker
\* records after the call differs from the one before.
C1_RestartBeforeStart ==
    [][(/\ last'.op = "init"
        /\ last'.command = VStr(JMX_COLLECT_COMMAND)
        /\ ~last'.raised
        /\ Len(last'.jmx_checks) > 0
        /\ Running)
       => LET evs == last'.events IN
          /\ \E i, j \in DOMAIN evs :
                /\ i < j
                /\ evs[i] = Event("SIGTERM", get_pid(World)[1], TRUE)
                /\ evs[j].e \in {"spawn", "call"}
          /\ SpawnedDetached(evs) => get_pid(World)' # get_pid(World)]_vars

\* A restart: the signal was sent, the new process spawned and recorded.
C1_Witness ==
    /\ last.op = "init"
    /\ Stopped(last.events)
    /\ SpawnedDetached(last.events)
    /\ HasEvent(last.events, "write_pid", TRUE)

C3_MarkerAbsentAfterStop == last.op = "stop" => get_pid(World) = <<>>

\* C4: an init() whose spawn fails returns a false value.
C4_FailedSpawnReturnsFalse ==
    (last.op = "init" /\ SpawnFailed(last.events)) => last.ret # "True"

\* The pid file as start() found it in the call that made the step: what
\* stop() left when the call stopped the collector first.
MarkerAtStart == IF Stopped(last'.events) THEN AbsentFile ELSE pid_file
RunningAtStart == IF Stopped(last'.events) THEN FALSE ELSE Running

\* C5 as claimed: a start() whose spawn fails leaves the marker as it found
\* it, and the state is Absent.
C5_FailedSpawnAbsent ==
    [][(last'.op \in {"start", "init"} /\ SpawnFailed(last'.events))
       => (pid_file' = MarkerAtStart /\ ~Running')]_vars

\* C5 as amended: a start() whose spawn fails leaves the marker as it found
\* it, and the state as it found it: Absent when it was Absent, Running when
\* start() was called on a running collector.
C5_FailedSpawnFrame ==
    [][(last'.op \in {"start", "init"} /\ SpawnFailed(last'.events))
       => (pid_file' = MarkerAtStart /\ Running' = RunningAtStart)]_vars

\* A failed spawn on a running collector: the marker still names it.
C5_Witness ==
    /\ last.op \in {"start", "init"}
    /\ SpawnFailed(last.events)
    /\ Running

\* C6: stop() when get_pid() gives no identifier sends no signal, removes no
\* status file, leaves the pid file as it is and returns.
C6_StopWithoutMarker ==
    [][(last'.op = "stop" /\ get_pid(World) = <<>>)
       => (/\ last'.events = <<>>
           /\ last'.ret = "None"
           /\ UNCHANGED <<pid_file, procs, py_status, jmx_status>>)]_vars

\* stop() returned with nothing done: a status file and a collector are
\* there, and no pid is recorded.
C6_Witness ==
    /\ last.op = "stop"
    /\ last.events = <<>>
    /\ get_pid(World) = <<>>
    /\ py_status # <<>>
    /\ Collectors(procs) # {}

\* C7: is_running() returns True only if the pid file records an identifier
\* and the process it names exists and may be signalled.
C7_ConservativeLiveness ==
    (last.op = "is_running" /\ last.ret = "True")
    => (/\ pid_file.exists
        /\ pid_file.content # <<>>
        /\ procs[pid_file.content[1]] \in {"jmx", "term"})

\* The probe answered EPERM: the marker names another user's process, and
\* is_running() returned False.
C7_Witness ==
    /\ last.op = "is_running"
    /\ last.ret = "False"
    /\ get_pid(World) # <<>>
    /\ os_kill_errno(World, get_pid(World)[1]) = "EPERM"

\* C8: is_running() changes neither the pid file nor the status files nor
\* the processes, and called again at once returns the same.
C8_ProbeReadOnly ==
    [][last'.op = "is_running"
       => (/\ UNCHANGED <<pid_file, procs, py_status, jmx_status>>
           /\ Running' = (last'.ret = "True"))]_vars

\* is_running() returned True on a collector with both status files there.
C8_Witness ==
    /\ last.op = "is_running"
    /\ last.ret = "True"
    /\ py_status # <<>>
    /\ jmx_status

\* C9: an init() whose scan finds no eligible check spawns nothing, signals
\* nothing, leaves the pid file as it is and returns a false value.
C9_NoLaunchWithoutChecks ==
    [][(last'.op = "init" /\ ~last'.raised /\ Len(last'.jmx_checks) = 0)
       => (/\ \A i \in DOMAIN last'.events :
                 last'.events[i].e \notin {"SIGTERM", "clean", "spawn", "call", "write_pid"}
           /\ UNCHANGED <<pid_file, procs>>
           /\ last'.ret # "True")]_vars

\* init() found only an invalid check while a collector was running, and
\* left it running.
C9_Witness ==
    /\ last.op = "init"
    /\ ~last.raised
    /\ Len(last.jmx_checks) = 0
    /\ DOMAIN last.invalid_checks # {}
    /\ last.ret = "None"
    /\ Running

\* C10: after an init() whose scan and status write went through, the
\* python-side status record holds only checks this init() found invalid.
C10_RecordIsPerRun ==
    (/\ last.op = "init"
     /\ ~last.raised
     /\ ~HasEvent(last.events, "write_status", FALSE))
    => RecordedInvalid \subseteq DOMAIN last.invalid_checks

(***************************************************************************)
(* The functions of the scan on bounded inputs.  The initial state draws   *)
(* a call (the function and its arguments), one step makes the call:       *)
(* `last` holds the call, and then the call with what it gave.             *)
(***************************************************************************)
\* Longest sequence of an input: the instances of a document, the files of
\* a directory, the checks and the characters of the options of a start.
MaxLen == 2

SeqsUpTo(S, n) == UNION {[1..k -> S] : k \in 0..n}

\* A conf section the validator accepts.
IncludeConf == VList(<<VDict([include |-> VDict([domain |-> VStr("java.lang")])])>>)

ConfInstance(conf) ==
    VDict([host |-> VStr("localhost"), port |-> VInt(7199), conf |-> conf])
JavaInstance(jbp, jo) ==
    VDict([host |-> VStr("localhost"), port |-> VInt(7199),
           java_bin_path |-> VStr(jbp), java_options |-> VStr(jo)])

\* Instances with host and integer port, and nothing wrong.
GoodInstances ==
    { Instance(VStr("localhost"), VInt(7199)),
      JavaInstance("java1", "-Xmx1"),
      JavaInstance("java2", ""),
      JavaInstance("", "-Xmx3"),
      ConfInstance(IncludeConf) }

\* Instances without a host, or without an integer port.
NoHostInstances == {VDict([port |-> VInt(7199)]), Instance(VNone, VInt(7199))}
NoPortInstances ==
    { VDict([host |-> VStr("localhost")]),
      Instance(VStr("localhost"), VStr("7199")),
      Instance(VStr("localhost"), VBool(TRUE)) }

\* Instances whose conf is empty, no list, or holds an element without an
\* include mapping; and an instance that is no mapping.
BadConfInstances ==
    { ConfInstance(VList(<<>>)),
      ConfInstance(VStr("include")),
      ConfInstance(VList(<<VDict([exclude |-> VDict([domain |-> VStr("java.lang")])])>>)),
      ConfInstance(VList(<<VDict([include |-> VStr("java.lang")])>>)),
      ConfInstance(VList(<<VStr("include")>>)) }
NoMappingInstance == VStr("localhost:7199")

InstancePool ==
    GoodInstances \cup NoHostInstances \cup NoPortInstances \cup BadConfInstances
    \cup {NoMappingInstance}

\* The init_config sections: none, the is_jmx flag, java settings, and a
\* conf the instances fall back to.
InitConfigs ==
    { VNone,
      VDict([is_jmx |-> VBool(TRUE)]),
      VDict([java_bin_path |-> VStr("java0"), java_options |-> VStr("-Xmx0")]),
      VDict([conf |-> VList(<<>>)]) }

\* A document: VNone for a document without init_config.
Doc(init_config, instances) ==
    IF IsNone(init_config) THEN VDict([instances |-> VList(instances)])
    ELSE VDict([init_config |-> init_config, instances |-> VList(instances)])

Docs ==
    {Doc(ic, is) : ic \in InitConfigs, is \in SeqsUpTo(InstancePool, MaxLen)}
    \cup {VDict([init_config |-> VDict([is_jmx |-> VBool(TRUE)])]),
          VDict([instances |-> VStr("localhost:7199")])}

\* The calls of is_jmx_check: a document, the name of its file, and the
\* allow-list (<<>> is no allow-list).
ClassifyCalls ==
    {[op |-> "call", fn |-> "is_jmx_check", check_config |-> d, check_name |-> n,
      checks_list |-> l] :
        d \in Docs, n \in {"cassandra", "nginx"}, l \in {<<>>, <<"nginx">>}}

\* The documents the validator is to reject, one for each way.
MalformedDocs ==
    {Doc(VNone, <<>>)}
    \cup {Doc(VNone, <<i>>) :
            i \in NoHostInstances \cup BadConfInstances \cup {NoMappingInstance}
                  \cup {Instance(VStr("localhost"), VStr("7199"))}}

\* The files of a conf.d: a valid cassandra.yaml, and malformed checks
\* under names that make them eligible.
FilePool ==
    {File(<<"cassandra", "yaml">>, CassandraDoc)}
    \cup {File(<<n, "yaml">>, d) : n \in {"solr", "tomcat"}, d \in MalformedDocs}

Directories ==
    {confd \in SeqsUpTo(FilePool, MaxLen) :
        \A i, j \in DOMAIN confd : i # j => confd[i].filename # confd[j].filename}

\* The calls of init() on a directory, collect command, statsd reporter.
DirectoryCalls ==
    {[op |-> "call", fn |-> "init", confd |-> confd] : confd \in Directories}

\* is_jmx_check(check_config, check_name, checks_list)
ClassifyCall ==
    /\ last.op = "call" /\ last.fn = "is_jmx_check"
    /\ last' = [op |-> "return", fn |-> "is_jmx_check",
                check_config |-> last.check_config, check_name |-> last.check_name,
                checks_list |-> last.checks_list,
                out |-> is_jmx_check(last.check_config, last.check_name,
                                     last.checks_list)]
    /\ UNCHANGED <<pid_file, procs, py_status, jmx_status, platform>>

\* init(confd_path, ...) where every system call goes through: the scan of
\* the directory, and what init() does with what the scan found.
DirectoryCall ==
    /\ last.op = "call" /\ last.fn = "init"
    /\ \E scan \in {should_run(last.confd, <<>>)} :
         \E r \in {init(World, scan, VNone, VNone,
                        Env("ok", CHOOSE p \in Pids : procs[p] = "free", "ok", FALSE))} :
           /\ Apply(r.w)
           /\ last' = [op |-> "return", fn |-> "init", confd |-> last.confd,
                       ret |-> r.ret, events |-> r.w.events,
                       jmx_checks |-> scan.jmx_checks,
                       invalid_checks |-> scan.invalid_checks, raised |-> scan.raised]

(***************************************************************************)
(* The argument vector of start().  A string is the sequence of its        *)
(* pieces: the characters of the options string, which split() looks       *)
(* into, the dot-separated parts of a file name, and one piece for a       *)
(* string nothing looks into.                                              *)
(***************************************************************************)
\* str.split() of the string s from piece i on, word being the token read
\* so far: the maximal runs of pieces that are no whitespace.
RECURSIVE split(_, _, _)
split(s, i, word) ==
    IF i > Len(s) THEN (IF word = <<>> THEN <<>> ELSE <<word>>)
    ELSE IF s[i] = " "
    THEN (IF word = <<>> THEN <<>> ELSE <<word>>) \o split(s, i + 1, <<>>)
    ELSE split(s, i + 1, Append(word, s[i]))

\* list.insert(index, x), index counted from 0 and not beyond the end.
Insert(args, index, x) ==
    SubSeq(args, 1, index) \o <<x>> \o SubSeq(args, index + 1, Len(args))

\* for x in xs: args.insert(index, x)
RECURSIVE InsertEach(_, _, _)
InsertEach(args, index, xs) ==
    IF xs = <<>> THEN args
    ELSE InsertEach(Insert(args, index, Head(xs)), index, Tail(xs))

\* Lines 310-339: subprocess_args.  path_to_java is None or a string;
\* java_run_opts is the options string, <<>> for None and for "".
subprocess_args(path_to_java, java_run_opts, default_check_frequency, jmx_checks, command, reporter) ==
    LET path == IF Truthy(path_to_java) THEN <<path_to_java.v>> ELSE <<"java">>
        args0 == << path, <<"-jar">>, <<"jmxfetch.jar">>,
                    <<"--check_period">>, <<ToString(default_check_frequency * 1000)>>,
                    <<"--conf_directory">>, <<"conf.d">>,
                    <<"--log_level">>, <<"INFO">>,
                    <<"--log_location">>, <<"jmxfetch.log">>,
                    <<"--reporter">>, <<reporter>>,
                    <<"--status_location">>, <<"jmx_status.yaml">>,
                    <<command>> >>
        args1 == Insert(args0, 3, <<"--check">>)
        args2 == InsertEach(args1, 4, jmx_checks)
    IN  IF java_run_opts # <<>>
        THEN InsertEach(args2, 1, split(java_run_opts, 1, <<>>))
        ELSE args2

\* The calls of start(): the java binary, an options string of pieces
\* "x", "y" and blanks, the checks a scan selected, and the command.
StartCalls ==
    {[op |-> "call", fn |-> "start", path_to_java |-> j, java_run_opts |-> o,
      jmx_checks |-> c, command |-> k] :
        j \in {VNone, VStr("/usr/bin/java")},
        o \in SeqsUpTo({"x", "y", " "}, MaxLen + 1),
        c \in {s \in SeqsUpTo({<<"cassandra", "yaml">>, <<"solr", "yaml">>,
                               <<"tomcat", "yaml">>}, MaxLen) :
                 \A i, j2 \in DOMAIN s : i # j2 => s[i] # s[j2]},
        k \in {JMX_COLLECT_COMMAND, "list_everything"}}

\* start(...) up to the assembly of the argument vector, the check period
\* of 15 seconds and the statsd reporter.
ArgsCall ==
    /\ last.op = "call" /\ last.fn = "start"
    /\ last' = [op |-> "return", fn |-> "start", path_to_java |-> last.path_to_java,
                java_run_opts |-> last.java_run_opts, jmx_checks |-> last.jmx_checks,
                command |-> last.command,
                out |-> subprocess_args(last.path_to_java, last.java_run_opts, 15,
                                        last.jmx_checks, last.command, "statsd:8125")]
    /\ UNCHANGED <<pid_file, procs, py_status, jmx_status, platform>>

InitScan ==
    /\ pid_file = AbsentFile
    /\ procs = [p \in Pids |-> "free"]
    /\ py_status = <<>>
    /\ jmx_status = FALSE
    /\ platform = "posix"
    /\ \/ last \in ClassifyCalls
       \/ last \in DirectoryCalls
       \/ last \in StartCalls

NextScan ==
    \/ ClassifyCall
    \/ DirectoryCall
    \/ ArgsCall

SpecScan == InitScan /\ [][NextScan]_vars

\* C11: init() on a directory that holds a valid eligible check next to
\* malformed eligible checks does not abort: it records every malformed
\* check in the status file, keeps the valid check, and launches.
C11_MalformedChecksIsolated ==
    (/\ last.op = "return" /\ last.fn = "init"
     /\ \E i \in DOMAIN last.confd : last.confd[i].doc = CassandraDoc)
    => /\ ~last.raised
       /\ \A i \in DOMAIN last.confd :
            last.confd[i].doc \in MalformedDocs
            => CheckName(last.confd[i].filename) \in RecordedInvalid
       /\ \E i \in DOMAIN last.jmx_checks :
            last.jmx_checks[i] = <<"cassandra", "yaml">>
       /\ SpawnedDetached(last.events)

\* C12: for an eligible document, is_jmx_check returns the init section's
\* java_bin_path (java_options) when it is non-empty, and else the value of
\* the first instance, in instance order, that has a non-empty one.
C12_FirstFoundWins ==
    (/\ last.op = "return" /\ last.fn = "is_jmx_check"
     /\ last.out.kind = "ok" /\ last.out.is_jmx)
    => LET doc == last.check_config
           section == Get(doc, "init_config", VNone)
           instances == doc.v.instances.v
           FromSection(key) == IF IsNone(section) THEN VNone ELSE Get(section, key, VNone)
           Having(key) == {i \in DOMAIN instances : Truthy(Get(instances[i], key, VNone))}
           First(key) == CHOOSE i \in Having(key) : \A j \in Having(key) : i <= j
           Expected(key) ==
               IF Truthy(FromSection(key)) THEN FromSection(key)
               ELSE IF Having(key) = {} THEN VNone
               ELSE instances[First(key)].v[key]
       IN  /\ last.out.java_bin_path = Expected("java_bin_path")
           /\ last.out.java_options = Expected("java_options")

\* C13: is_jmx_check takes a check for eligible exactly when an allow-list
\* was supplied and holds its name, or none was supplied and the init
\* section sets is_jmx or the name is a known one; every other check comes
\* back not applicable, with no validation error.
C13_EligibilityRule ==
    (last.op = "return" /\ last.fn = "is_jmx_check")
    => LET section == Get(last.check_config, "init_config", VNone)
           supplied == last.checks_list # <<>>
           member == \E i \in DOMAIN last.checks_list :
                        last.checks_list[i] = last.check_name
           flag == ~IsNone(section) /\ Truthy(Get(section, "is_jmx", VNone))
           known == last.check_name \in
                      {"activemq", "activemq_58", "cassandra", "jmx", "solr", "tomcat"}
           eligible == (supplied /\ member) \/ (~supplied /\ (flag \/ known))
       IN  (last.out.kind = "ok" /\ ~last.out.is_jmx) <=> ~eligible

\* is_jmx_check found a known name with the is_jmx flag not applicable,
\* because the allow-list supplied does not hold it.
C13_Witness ==
    /\ last.op = "return" /\ last.fn = "is_jmx_check"
    /\ last.check_name = "cassandra"
    /\ last.checks_list = <<"nginx">>
    /\ Get(last.check_config, "init_config", VNone) = VDict([is_jmx |-> VBool(TRUE)])
    /\ last.out = Returned(FALSE, VNone, VNone)

\* C14: a document without a conf section, in its instances and in its
\* init section, whose instances all have a host and an integer port, is
\* never invalid: it is eligible whenever its name makes it a JMX check.
C14_MissingConfIsLegal ==
    (/\ last.op = "return" /\ last.fn = "is_jmx_check"
     /\ LET section == Get(last.check_config, "init_config", VNone)
            instances == Get(last.check_config, "instances", VNone)
        IN  /\ IsNone(section) \/ "conf" \notin DOMAIN section.v
            /\ IsList(instances) /\ Len(instances.v) > 0
            /\ \A i \in DOMAIN instances.v :
                 /\ IsDict(instances.v[i])
                 /\ "conf" \notin DOMAIN instances.v[i].v
                 /\ ~IsNone(Get(instances.v[i], "host", VNone))
                 /\ Get(instances.v[i], "port", VNone).t = "int")
    => /\ last.out.kind = "ok"
       /\ (last.checks_list = <<>> /\ last.check_name = "cassandra") => last.out.is_jmx

\* is_jmx_check took a cassandra document of two instances without conf
\* for eligible.
C14_Witness ==
    /\ last.op = "return" /\ last.fn = "is_jmx_check"
    /\ last.check_name = "cassandra" /\ last.checks_list = <<>>
    /\ last.check_config =
         Doc(VNone, <<Instance(VStr("localhost"), VInt(7199)),
                      Instance(VStr("localhost"), VInt(7199))>>)
    /\ last.out.kind = "ok" /\ last.out.is_jmx

\* C15: a document under validation with an instance that has no host, or
\* no integer port, is invalid, whatever its other fields and instances.
C15_RequiredInstanceFields ==
    (/\ last.op = "return" /\ last.fn = "is_jmx_check"
     /\ ~(last.out.kind = "ok" /\ ~last.out.is_jmx)
     /\ LET instances == Get(last.check_config, "instances", VNone)
        IN  /\ IsList(instances)
            /\ \E i \in DOMAIN instances.v :
                 /\ IsDict(instances.v[i])
                 /\ \/ IsNone(Get(instances.v[i], "host", VNone))
                    \/ Get(instances.v[i], "port", VNone).t # "int")
    => last.out.kind = "invalid"

\* C16: after a stop() that found the marker and signalled the process, the
\* status file of the collector, the one start() names in
\* --status_location, is absent.
C16_StopRemovesCollectorStatus ==
    (last.op = "stop" /\ Stopped(last.events)) => ~jmx_status

\* C17: an init() for a listing command performs no stop(): it sends no
\* SIGTERM, does not clear the pid file and removes no status file, in
\* whatever state it is called, Running included.
C17_ListingNeverRestarts ==
    (last.op = "init" /\ last.command # VStr(JMX_COLLECT_COMMAND))
    => \A i \in DOMAIN last.events :
         last.events[i].e \notin {"SIGTERM", "clean", "remove_py_status"}

\* An init() for a listing command was called in the state Running and
\* spawned next to the running collector; the pid file could not be opened,
\* and still names the collector that ran, alive and not signalled.
C17_Witness ==
    /\ last.op = "init"
    /\ last.command = VStr("list_everything")
    /\ SpawnedDetached(last.events)
    /\ HasEvent(last.events, "write_pid", FALSE)
    /\ Running
    /\ get_pid(World) # <<>>
    /\ procs[get_pid(World)[1]] = "jmx"
    /\ \A i \in DOMAIN last.events :
         last.events[i].e = "spawn" => last.events[i].pid # get_pid(World)[1]

\* C18: when an init() that found an invalid check and wrote the status
\* file returns, the python-side status file holds the invalid checks of
\* this run.
C18_RecordSurvivesInit ==
    (/\ last.op = "init"
     /\ ~last.raised
     /\ DOMAIN last.invalid_checks # {}
     /\ HasEvent(last.events, "write_status", TRUE))
    => py_status = <<last.invalid_checks>>

\* C19: an init() that spawns and writes the pid file while the marker names
\* a live collector that was not signalled has signalled that collector: the
\* marker of a live, un-signalled collector is never overwritten.
C19_NoOverwriteOfLiveMarker ==
    [][(/\ last'.op = "init"
        /\ HasEvent(last'.events, "write_pid", TRUE)
        /\ get_pid(World) # <<>>
        /\ procs[get_pid(World)[1]] = "jmx")
       => procs'[get_pid(World)[1]] # "jmx"]_vars

\* C20: in the argument vector of start() the java binary comes first, the
\* tokens of the options string follow it in the order of the string, the
\* checks follow the --check flag in the order of the scan, and the command
\* is the last argument.
C20_ArgumentOrder ==
    (last.op = "return" /\ last.fn = "start")
    => LET args == last.out
           opts == split(last.java_run_opts, 1, <<>>)
       IN  /\ args[1] = (IF IsNone(last.path_to_java) THEN <<"java">>
                         ELSE <<last.path_to_java.v>>)
           /\ SubSeq(args, 2, 1 + Len(opts)) = opts
           /\ \E c \in DOMAIN args :
                /\ args[c] = <<"--check">>
                /\ SubSeq(args, c + 1, c + Len(last.jmx_checks)) = last.jmx_checks
           /\ args[Len(args)] = <<last.command>>

====
